---------------------------- MODULE Spec2Model ----------------------------
(***************************************************************************)
(* The incremental compilation cache of the Endorphin esbuild plugin       *)
(* (src/endorphin.js): the template cache, the shared style cache, the     *)
(* private style cache of every template entry, the per-pass file key      *)
(* cache, and the onLoad handlers as asynchronous tasks that suspend at    *)
(* every awaited filesystem or compiler call.                              *)
(***************************************************************************)
EXTENDS Integers, Sequences, FiniteSets, TLC

(***************************************************************************)
(* Bounds                                                                  *)
(***************************************************************************)
\* the files are modified at most MaxMods times in all
MaxMods == 2
\* number of load requests the host keeps in flight at once
MaxReq == 2
\* number of load requests the host issues in all
MaxLoads == 3
\* number of fs.stat calls counted for one path in one build pass
MaxStats == 2
\* number of build passes the host starts
MaxPasses == 1
\* number of directories above a template file
MaxDepth == 3
\* number of characters of a scanned text
MaxLen == 5

(***************************************************************************)
(* Files and virtual identifiers                                           *)
(***************************************************************************)
TPath == "T.html"
SPath == "S.scss"
DPath == "D.scss"
Files == {TPath, SPath, DPath}
\* a plain stylesheet without imports, and every file on the disk
PPath == "P.css"
Disk == Files \cup {PPath}
Slots == 1..MaxReq

Undefined == [undefined |-> TRUE]
NoSuffix == [type |-> "", scope |-> "", i |-> -1]

\* 'e' + safeBase64Hash(filePath): an opaque token, a function of the path
createScopeSuffix(filePath) == <<"e", filePath>>

\* args.path + (args.suffix || '')
getAbsoluteUrl(args) == [path |-> args.path, suffix |-> args.suffix]

\* url.split('?', 2): the file and the query of a virtual identifier
splitUrl(url) == [file |-> url.path, query |-> url.suffix]

\* the text of file f in version v
Content(f, v) == [file |-> f, ver |-> v, part |-> 0]
\* the text of the i-th inline chunk of template f in version v
Inline(f, v, kind, i) == [file |-> f, ver |-> v, part |-> <<kind, i>>]

(***************************************************************************)
(* External collaborators, at their interface                              *)
(***************************************************************************)
\* parse(source).ast.stylesheets: even versions hold an inline SCSS sheet
\* and an external one, odd versions one inline CSS sheet
AstStylesheets(source) ==
    IF source.ver % 2 = 0
    THEN << [url |-> source.file, content |-> Inline(source.file, source.ver, "style", 0), mime |-> "scss"],
            [url |-> SPath, content |-> Undefined, mime |-> "scss"] >>
    ELSE << [url |-> source.file, content |-> Inline(source.file, source.ver, "style", 0), mime |-> "css"] >>

\* parse(source).ast.scripts
AstScripts(source) ==
    IF source.ver % 2 = 0
    THEN << [url |-> "ext.js", content |-> Undefined, mime |-> "js"],
            [url |-> source.file, content |-> Inline(source.file, source.ver, "script", 1), mime |-> "ts"] >>
    ELSE << [url |-> source.file, content |-> Inline(source.file, source.ver, "script", 0), mime |-> "typescript"],
            [url |-> source.file, content |-> Inline(source.file, source.ver, "script", 1), mime |-> "text/javascript"] >>

\* the files sass.compileStringAsync loads for a source: the entry point
\* itself and the partial it imports
LoadedUrls(file) == << file, DPath >>

\* sass.compileStringAsync + scopeCSS: the code is a function of the source,
\* of the text of every partial read while compiling, and of the scope
ProcessedCode(source, type, scope, depText) ==
    [src |-> source, type |-> type, scope |-> scope, imports |-> depText]

\* generate(parsed).code
GeneratedCode(source) == [generated |-> source]

\* the characters of a template's text, and what the parser warns about
TemplateText(source) ==
    IF source.ver % 2 = 0 THEN << "a", "LF", "b" >> ELSE << "a", "CR", "LF", "b", "LF" >>
ParserWarnings(source) ==
    IF source.ver % 2 = 0 THEN << [message |-> "w0", pos |-> 2] >>
    ELSE << [message |-> "w1", pos |-> 0], [message |-> "w2", pos |-> 9] >>

(***************************************************************************)
(* Pure helpers of src/endorphin.js                                        *)
(***************************************************************************)
\* text[i] of JavaScript: undefined past the end
CharAt(text, i) == IF i + 1 \in DOMAIN text THEN text[i + 1] ELSE "undefined"

\* a scan that ends a line at every CR and at every LF, also inside CR LF
RECURSIVE getLinesLoop_NoCRLF(_, _, _, _)
getLinesLoop_NoCRLF(text, start, end, result) ==
    IF end < Len(text)
    THEN LET ch == CharAt(text, end)
             e1 == end + 1
         IN  IF ch = "CR" \/ ch = "LF"
             THEN getLinesLoop_NoCRLF(text, e1, e1, Append(result, [start |-> start, end |-> e1]))
             ELSE getLinesLoop_NoCRLF(text, start, e1, result)
    ELSE IF start # end THEN Append(result, [start |-> start, end |-> end]) ELSE result

RECURSIVE getLinesLoop(_, _, _, _)
getLinesLoop(text, start, end, result) ==
    IF end < Len(text)
    THEN LET ch == CharAt(text, end)
             e1 == end + 1
             e2 == IF ch = "CR" /\ CharAt(text, e1) = "LF" THEN e1 + 1 ELSE e1
         IN  IF ch = "CR" \/ ch = "LF"
             THEN getLinesLoop(text, e2, e2, Append(result, [start |-> start, end |-> e2]))
             ELSE getLinesLoop(text, start, e1, result)
    ELSE IF start # end THEN Append(result, [start |-> start, end |-> end]) ELSE result

getLines(text) == getLinesLoop(text, 0, 0, <<>>)

\* lines.findIndex(...): the 0-based index of the first match, or -1
findLineIx(lines, pos) ==
    LET hits == {k \in DOMAIN lines : lines[k].start >= pos /\ lines[k].end < pos}
    IN  IF hits = {} THEN -1 ELSE (CHOOSE k \in hits : \A j \in hits : k <= j) - 1

createMessage(message, pos, code, file) ==
    LET lines == getLines(code)
        lineIx == findLineIx(lines, pos)
    IN  IF lineIx # -1
        THEN [text |-> message,
              location |-> [line |-> lineIx, column |-> pos - lines[lineIx + 1].start,
                            lineText |-> SubSeq(code, lines[lineIx + 1].start + 1, lines[lineIx + 1].end),
                            file |-> file]]
        ELSE Undefined

\* the warn callback of compileTemplate, applied to every parser warning
RECURSIVE collectWarnings(_, _, _)
collectWarnings(ws, code, file) ==
    IF ws = <<>> THEN <<>>
    ELSE LET warning == createMessage(Head(ws).message, Head(ws).pos, code, file)
             tail == collectWarnings(Tail(ws), code, file)
         IN  IF warning # Undefined THEN <<warning>> \o tail ELSE tail

getComponentResource(node) == [url |-> node.url, content |-> node.content, type |-> node.mime]

\* list[i] of JavaScript (0-based): undefined outside the list
At(list, i) == IF i + 1 \in DOMAIN list THEN list[i + 1] ELSE Undefined

\* style?.content and script?.content as a condition
HasContent(res) == res # Undefined /\ res.content # Undefined

\* a header that numbers the inline scripts among themselves instead of by
\* their place in the script list
RECURSIVE scriptHeader_Position(_, _, _)
scriptHeader_Position(scripts, filePath, i) ==
    IF i >= Len(scripts) THEN <<>>
    ELSE (IF HasContent(At(scripts, i))
          THEN << [stmt |-> "export", path |-> filePath,
                   suffix |-> [type |-> "componentScript", scope |-> "",
                               i |-> Cardinality({k \in 0..(i - 1) : HasContent(At(scripts, k))})]] >>
          ELSE <<>>) \o scriptHeader_Position(scripts, filePath, i + 1)

\* header lines for the inline scripts (scripts.forEach)
RECURSIVE scriptHeader(_, _, _)
scriptHeader(scripts, filePath, i) ==
    IF i >= Len(scripts) THEN <<>>
    ELSE (IF HasContent(At(scripts, i))
          THEN << [stmt |-> "export", path |-> filePath,
                   suffix |-> [type |-> "componentScript", scope |-> "", i |-> i]] >>
          ELSE <<>>) \o scriptHeader(scripts, filePath, i + 1)

\* header lines for the stylesheets (styles.forEach)
RECURSIVE styleHeader(_, _, _)
styleHeader(styles, cssScope, i) ==
    IF i >= Len(styles) THEN <<>>
    ELSE << [stmt |-> "import", path |-> At(styles, i).url,
             suffix |-> [type |-> "componentStylesheet", scope |-> cssScope,
                         i |-> IF HasContent(At(styles, i)) THEN i ELSE -1]] >>
         \o styleHeader(styles, cssScope, i + 1)

(***************************************************************************)
(* Paths: a path is a list of segments, absolute or not; a segment is a     *)
(* name with its extension                                                 *)
(***************************************************************************)
Seg(base, ext) == [base |-> base, ext |-> ext]
Path(abs, segs) == [abs |-> abs, segs |-> segs]
Dot == Seg(".", "")

\* path.normalize: "." segments are dropped
RECURSIVE dropDots(_)
dropDots(segs) ==
    IF segs = <<>> THEN <<>>
    ELSE IF Head(segs) = Dot THEN dropDots(Tail(segs))
         ELSE <<Head(segs)>> \o dropDots(Tail(segs))

pathNormalize(p) ==
    LET segs == dropDots(p.segs)
    IN  IF segs = <<>> /\ ~p.abs THEN Path(FALSE, <<Dot>>) ELSE Path(p.abs, segs)

\* normalizedFilename.startsWith(normalizedRoot + '/')
startsWithDir(p, root) ==
    /\ p.abs = root.abs
    /\ Len(p.segs) >= Len(root.segs)
    /\ SubSeq(p.segs, 1, Len(root.segs)) = root.segs

\* stripRoot: slice(normalizedRoot.length) keeps the '/' after the root
stripRoot(normalizedFilename, normalizedRoot) ==
    IF startsWithDir(normalizedFilename, normalizedRoot)
    THEN Path(TRUE, SubSeq(normalizedFilename.segs, Len(normalizedRoot.segs) + 1,
                           Len(normalizedFilename.segs)))
    ELSE normalizedFilename

normalize(filename, normalizedRoot) == stripRoot(pathNormalize(filename), normalizedRoot)

\* path.basename(id, path.extname(id)), as a one-segment relative path
pathBasename(id) == Path(FALSE, << Seg(id.segs[Len(id.segs)].base, "") >>)

\* path.dirname(id)
pathDirname(id) ==
    IF Len(id.segs) > 1 THEN Path(id.abs, SubSeq(id.segs, 1, Len(id.segs) - 1))
    ELSE IF id.abs THEN Path(TRUE, <<>>) ELSE Path(FALSE, <<Dot>>)

\* defaultOptions.componentName
componentName(id) ==
    LET fileName == pathBasename(id)
    IN  IF fileName = Path(FALSE, << Seg("index", "") >>) THEN pathDirname(id) ELSE fileName

\* process.cwd()
Root == Path(TRUE, << Seg("proj", "") >>)

(***************************************************************************)
(* Maps                                                                    *)
(***************************************************************************)
EmptyMap == [x \in {} |-> Undefined]
MapGet(m, k) == IF k \in DOMAIN m THEN m[k] ELSE Undefined
MapSet(m, k, v) == [x \in (DOMAIN m) \cup {k} |-> IF x = k THEN v ELSE m[x]]

(***************************************************************************)
(* State                                                                   *)
(***************************************************************************)
VARIABLES
    fs,             \* file -> version (modification time and text) on disk
    templateCache,  \* path -> TemplateCacheEntry
    styleCache,     \* url -> CacheEntry, the shared style cache
    fileKeyCache,   \* path -> CacheKey, the per-pass memo
    req,            \* slot -> the locals of the load task running in it
    resp,           \* slot -> what the last load of the slot returned
    loads,          \* number of load requests issued so far
    statted,        \* history: path -> fs.stat calls IdentityRequest made in this pass
    token,          \* history: the last value getCacheKey returned to IdentityRequest
    pass,           \* history: number of build passes started so far
    input,          \* the argument of a helper applied on its own
    output          \* [value |-> what the helper returned for it]

vars == <<fs, templateCache, styleCache, fileKeyCache, req, resp, loads, statted, token, pass, input, output>>

\* `${stats.ino}:${stats.mtimeMs}` of a path as the disk is now
Identity(f) == <<f, fs[f]>>

IdleReq ==
    [pc |-> "idle", kind |-> "", url |-> getAbsoluteUrl([path |-> "", suffix |-> NoSuffix]),
     cache |-> "", cacheEntry |-> Undefined, cacheKey |-> Undefined,
     source |-> Undefined, type |-> "", code |-> Undefined,
     todo |-> <<>>, deps |-> <<>>,
     fs0 |-> [f \in Disk |-> 0], alone |-> TRUE, second |-> FALSE,
     clean |-> TRUE, peers |-> {}]

(***************************************************************************)
(* getCacheKey, isValidEntry, compileTemplate, toCSSOnLoad                 *)
(***************************************************************************)
\* a key that leaves the modification time out
getCacheKey_InoOnly(filePath) == <<filePath, 0>>

\* getCacheKey(filePath): the memoized key if there is one, else the key
\* fs.stat gives; the function never stores into fileKeyCache
getCacheKey(filePath) ==
    IF MapGet(fileKeyCache, filePath) # Undefined
    THEN fileKeyCache[filePath]
    ELSE Identity(filePath)

\* whether getCacheKey(filePath) calls fs.stat
ReadsDisk(filePath) == MapGet(fileKeyCache, filePath) = Undefined

\* a validation that never compares the own key
KeyMismatch_Never(entry, cacheKey) == FALSE

\* the first test of isValidEntry: entry.cacheKey !== cacheKey
KeyMismatch(entry, cacheKey) == entry.cacheKey # cacheKey

\* a validation that never compares the keys of the dependencies
DepMismatch_Never(dep, current) == FALSE

\* the test of isValidEntry's loop for one recorded dependency [k, v]
DepMismatch(dep, current) == dep.key # current

\* the paths isValidEntry still has to check once the own key matched
DepsToCheck(entry) == entry.deps

\* a compile that keeps the key of the first version of the file
compileTemplate_FirstKey(filePath, cacheKey, source) ==
    [cacheKey |-> <<filePath, 0>>,
     styles |-> [k \in DOMAIN AstStylesheets(source) |-> getComponentResource(AstStylesheets(source)[k])],
     scripts |-> [k \in DOMAIN AstScripts(source) |-> getComponentResource(AstScripts(source)[k])],
     source |-> source,
     warnings |-> collectWarnings(ParserWarnings(source), TemplateText(source), filePath),
     styleCache |-> EmptyMap,
     code |-> [header |-> scriptHeader([k \in DOMAIN AstScripts(source) |-> getComponentResource(AstScripts(source)[k])], filePath, 0)
                          \o styleHeader([k \in DOMAIN AstStylesheets(source) |-> getComponentResource(AstStylesheets(source)[k])],
                                         createScopeSuffix(filePath), 0),
               body |-> GeneratedCode(source)]]

\* a compile that hands the style cache of the entry it replaces to the new
\* entry
compileTemplate_KeepStyles(filePath, cacheKey, source) ==
    [cacheKey |-> cacheKey,
     styles |-> [k \in DOMAIN AstStylesheets(source) |-> getComponentResource(AstStylesheets(source)[k])],
     scripts |-> [k \in DOMAIN AstScripts(source) |-> getComponentResource(AstScripts(source)[k])],
     source |-> source,
     warnings |-> collectWarnings(ParserWarnings(source), TemplateText(source), filePath),
     styleCache |-> IF filePath \in DOMAIN templateCache
                    THEN templateCache[filePath].styleCache ELSE EmptyMap,
     code |-> [header |-> scriptHeader([k \in DOMAIN AstScripts(source) |-> getComponentResource(AstScripts(source)[k])], filePath, 0)
                          \o styleHeader([k \in DOMAIN AstStylesheets(source) |-> getComponentResource(AstStylesheets(source)[k])],
                                         createScopeSuffix(filePath), 0),
               body |-> GeneratedCode(source)]]

compileTemplate(filePath, cacheKey, source) ==
    LET cssScope == createScopeSuffix(filePath)
        styles == [k \in DOMAIN AstStylesheets(source) |-> getComponentResource(AstStylesheets(source)[k])]
        scripts == [k \in DOMAIN AstScripts(source) |-> getComponentResource(AstScripts(source)[k])]
        header == scriptHeader(scripts, filePath, 0) \o styleHeader(styles, cssScope, 0)
    IN  [cacheKey |-> cacheKey,
         styles |-> styles,
         scripts |-> scripts,
         source |-> source,
         warnings |-> collectWarnings(ParserWarnings(source), TemplateText(source), filePath),
         styleCache |-> EmptyMap,
         code |-> [header |-> header, body |-> GeneratedCode(source)]]

\* Array.from(cacheEntry.deps.keys())
DepPaths(deps) == [k \in DOMAIN deps |-> deps[k].path]

\* a response that leaves out the files to watch
toCSSOnLoad_NoWatch(cacheEntry) ==
    [contents |-> cacheEntry.code, watchFiles |-> <<>>, loader |-> "css"]

toCSSOnLoad(cacheEntry) ==
    [contents |-> cacheEntry.code, watchFiles |-> DepPaths(cacheEntry.deps), loader |-> "css"]

\* the loader of an inline script
ScriptLoader(script) == IF script.type = "ts" \/ script.type = "typescript" THEN "ts" ELSE "js"

(***************************************************************************)
(* Requests the host issues                                                *)
(***************************************************************************)
Indices == {-1, 0, 1}
TemplateUrl == getAbsoluteUrl([path |-> TPath, suffix |-> NoSuffix])
SubUrl(type, i) ==
    getAbsoluteUrl([path |-> TPath,
                    suffix |-> [type |-> type,
                                scope |-> IF type = "componentStylesheet" THEN createScopeSuffix(TPath) ELSE "",
                                i |-> i]])
StylesheetUrl ==
    getAbsoluteUrl([path |-> SPath,
                    suffix |-> [type |-> "componentStylesheet", scope |-> createScopeSuffix(TPath), i |-> -1]])

InFlight(r) == req[r].pc # "idle"
\* no other load of the same file is running
Alone(r, url) == \A x \in Slots \ {r} : ~(InFlight(x) /\ req[x].url.path = url.path)

\* history: the running loads of the same identifier
Peers(r, url) == {x \in Slots \ {r} : InFlight(x) /\ req[x].url = url}

\* history: every running load of the same file began on the disk as it is
\* now, among loads of which the same holds, and still has the cache it was
\* given
Clean(r, url) ==
    \A x \in Slots \ {r} :
        (InFlight(x) /\ req[x].url.path = url.path)
            => (req[x].clean /\ req[x].fs0 = fs /\ req[x].cache # "orphan")

\* a new task in slot r; the running loads of the same file are no longer
\* alone, those of the same identifier have it as a peer
Launch(r, task) ==
    [x \in Slots |->
        IF x = r THEN [task EXCEPT !.fs0 = fs, !.alone = Alone(r, task.url),
                                   !.clean = Clean(r, task.url),
                                   !.peers = Peers(r, task.url)]
        ELSE IF InFlight(x) /\ req[x].url.path = task.url.path
             THEN [req[x] EXCEPT !.alone = FALSE,
                                 !.peers = IF req[x].url = task.url
                                           THEN @ \cup {r} ELSE @ \ {r}]
             ELSE [req[x] EXCEPT !.peers = @ \ {r}]]

\* history: the disk changed while the load ran
Changed == [f \in Disk |-> -1]

\* the value the handler of the running load r returns, with the history of
\* the load: the compiler runs it made, the disk it ran on if that did not
\* change, whether it ran alone, whether it repeated an earlier load, the
\* loads of the same identifier that ran at the same time
Result(r, out, ran) ==
    [status |-> "ok", kind |-> req[r].kind, url |-> req[r].url,
     contents |-> out.contents, loader |-> out.loader,
     watchFiles |-> out.watchFiles, warnings |-> out.warnings,
     ran |-> ran, consoleWarn |-> 0,
     at |-> IF req[r].fs0 = fs THEN fs ELSE Changed, alone |-> req[r].alone,
     second |-> req[r].fs0 = fs /\ req[r].second,
     clean |-> req[r].fs0 = fs /\ req[r].clean /\ req[r].cache # "orphan",
     peers |-> req[r].peers]

\* a handler that throws (status "error") or returns nothing ("undefined")
NoResult(status, kind, url, warned) ==
    [status |-> status, kind |-> kind, url |-> url,
     contents |-> Undefined, loader |-> "", watchFiles |-> Undefined, warnings |-> Undefined,
     ran |-> 0, consoleWarn |-> warned, at |-> Changed, alone |-> FALSE, second |-> FALSE,
     clean |-> FALSE, peers |-> {}]

NoResp == NoResult("none", "", TemplateUrl, 0)

\* history: the load of url that starts in slot r repeats a load of the same
\* identifier that has returned to another slot, ran alone in its file, and
\* since the start of which neither the disk has changed nor (for an inline
\* stylesheet) the template has been recompiled
Repeats(r, url) ==
    \E x \in Slots \ {r} :
        /\ ~InFlight(x)
        /\ resp[x].status = "ok"
        /\ resp[x].url = url
        /\ resp[x].alone
        /\ resp[x].at = fs

Init ==
    /\ fs = [f \in Disk |-> 0]
    /\ templateCache = EmptyMap
    /\ styleCache = EmptyMap
    /\ fileKeyCache = EmptyMap
    /\ req = [r \in Slots |-> IdleReq]
    /\ resp = [r \in Slots |-> NoResp]
    /\ loads = 0
    /\ statted = [f \in Disk |-> 0]
    /\ token = Undefined
    /\ pass = 0
    /\ input = Undefined
    /\ output = Undefined

(***************************************************************************)
(* The environment                                                         *)
(***************************************************************************)
RECURSIVE Sum(_, _)
Sum(f, S) == IF S = {} THEN 0 ELSE LET x == CHOOSE y \in S : TRUE IN f[x] + Sum(f, S \ {x})

\* a file is written: its modification time and its text change
Modify(f) ==
    /\ Sum(fs, Disk) < MaxMods
    /\ fs' = [fs EXCEPT ![f] = @ + 1]
    /\ UNCHANGED <<templateCache, styleCache, fileKeyCache, req, resp, loads, statted, token, pass, input, output>>

\* a build start that drops the compiled entries along with the memo
OnStart_ClearsCaches ==
    /\ pass < MaxPasses
    /\ pass' = pass + 1
    /\ fileKeyCache' = EmptyMap
    /\ templateCache' = EmptyMap
    /\ styleCache' = EmptyMap
    /\ statted' = [f \in Disk |-> 0]
    /\ UNCHANGED <<fs, req, resp, loads, token, input, output>>

\* build.onStart
OnStart ==
    /\ pass < MaxPasses
    /\ pass' = pass + 1
    /\ fileKeyCache' = EmptyMap
    /\ statted' = [f \in Disk |-> 0]
    /\ UNCHANGED <<fs, templateCache, styleCache, req, resp, loads, token, input, output>>

\* the host issues a load request to the free slot r
Issue(r) ==
    /\ ~InFlight(r)
    /\ loads < MaxLoads
    /\ loads' = loads + 1

(***************************************************************************)
(* onLoad(.html), main template                                            *)
(***************************************************************************)
\* lines 150-192: the entry is looked up, then getCacheKey is awaited
StartTemplate(r) ==
    /\ Issue(r)
    /\ req' = Launch(r, [IdleReq EXCEPT !.pc = "stat", !.kind = "template",
                                        !.url = TemplateUrl,
                                        !.cacheEntry = MapGet(templateCache, TPath),
                                        !.second = Repeats(r, TemplateUrl)])
    /\ resp' = [resp EXCEPT ![r] = NoResp]
    /\ UNCHANGED <<fs, templateCache, styleCache, fileKeyCache, statted, token, pass, input, output>>

\* the response of the main-template path, lines 199-203
TemplateResponse(entry) ==
    [contents |-> entry.code, loader |-> "js", watchFiles |-> Undefined,
     warnings |-> entry.warnings]

\* lines 192-203: the key arrives; a valid entry is returned as it is,
\* otherwise compileTemplate starts and awaits fs.readFile
StatTemplate(r) ==
    /\ req[r].pc = "stat" /\ req[r].kind = "template"
    /\ LET file == req[r].url.path
           cacheKey == getCacheKey(file)
           entry == req[r].cacheEntry
       IN  /\ IF entry = Undefined \/ KeyMismatch(entry, cacheKey)
              THEN /\ req' = [req EXCEPT ![r].pc = "read", ![r].cacheKey = cacheKey]
                   /\ UNCHANGED resp
              ELSE /\ resp' = [resp EXCEPT ![r] = Result(r, TemplateResponse(entry), 0)]
                   /\ req' = [req EXCEPT ![r] = IdleReq]
    /\ UNCHANGED <<fs, templateCache, styleCache, fileKeyCache, loads, statted, token, pass, input, output>>

\* lines 434-491 and 196-203: the text arrives, the template is parsed and
\* generated, the entry replaces the cached one; the loads that hold the
\* style cache of the replaced entry keep writing to that unreachable map
\* (history: the inline loads that returned from the replaced entry are no
\* longer loads a later one repeats)
ReadTemplate_ReadsAtStart(r) ==
    /\ req[r].pc = "read"
    /\ LET file == req[r].url.path
           source == Content(file, req[r].fs0[file])
           entry == compileTemplate(file, req[r].cacheKey, source)
       IN  /\ templateCache' = MapSet(templateCache, file, entry)
           /\ resp' = [x \in Slots |->
                         IF x = r THEN Result(r, TemplateResponse(entry), 1)
                         ELSE IF resp[x].kind = "componentStylesheet" /\ resp[x].url.path = file
                              THEN [resp[x] EXCEPT !.alone = FALSE]
                              ELSE resp[x]]
           /\ req' = [x \in Slots |->
                        IF x = r THEN IdleReq
                        ELSE IF req[x].cache = "private" /\ req[x].url.path = file
                             THEN [req[x] EXCEPT !.cache = "orphan"]
                             ELSE req[x]]
    /\ UNCHANGED <<fs, styleCache, fileKeyCache, loads, statted, token, pass, input, output>>

ReadTemplate(r) ==
    /\ req[r].pc = "read"
    /\ LET file == req[r].url.path
           source == Content(file, fs[file])
           entry == compileTemplate(file, req[r].cacheKey, source)
       IN  /\ templateCache' = MapSet(templateCache, file, entry)
           /\ resp' = [x \in Slots |->
                         IF x = r THEN Result(r, TemplateResponse(entry), 1)
                         ELSE IF resp[x].kind = "componentStylesheet" /\ resp[x].url.path = file
                              THEN [resp[x] EXCEPT !.alone = FALSE]
                              ELSE resp[x]]
           /\ req' = [x \in Slots |->
                        IF x = r THEN IdleReq
                        ELSE IF req[x].cache = "private" /\ req[x].url.path = file
                             THEN [req[x] EXCEPT !.cache = "orphan"]
                             ELSE req[x]]
    /\ UNCHANGED <<fs, styleCache, fileKeyCache, loads, statted, token, pass, input, output>>

(***************************************************************************)
(* onLoad(.html), sub-resources                                            *)
(***************************************************************************)
\* a handler that answers a sub-resource of an unknown template with nothing
\* instead of throwing
SubResourceNoTemplate_Silent(r, type, i) ==
    /\ Issue(r)
    /\ MapGet(templateCache, TPath) = Undefined
    /\ resp' = [resp EXCEPT ![r] = NoResult("undefined", type, SubUrl(type, i), 1)]
    /\ UNCHANGED <<fs, templateCache, styleCache, fileKeyCache, req, statted, token, pass, input, output>>

\* lines 150-155: a sub-resource of a template that was never compiled
SubResourceNoTemplate(r, type, i) ==
    /\ Issue(r)
    /\ MapGet(templateCache, TPath) = Undefined
    /\ resp' = [resp EXCEPT ![r] = NoResult("error", type, SubUrl(type, i), 0)]
    /\ UNCHANGED <<fs, templateCache, styleCache, fileKeyCache, req, statted, token, pass, input, output>>

\* lines 176-189: an inline script
LoadScript(r, i) ==
    /\ Issue(r)
    /\ MapGet(templateCache, TPath) # Undefined
    /\ LET script == At(templateCache[TPath].scripts, i)
           type == "componentScript"
       IN  resp' = [resp EXCEPT ![r] =
                      IF HasContent(script)
                      THEN [NoResult("ok", type, SubUrl(type, i), 0) EXCEPT
                               !.contents = script.content, !.loader = ScriptLoader(script)]
                      ELSE NoResult("undefined", type, SubUrl(type, i), 1)]
    /\ UNCHANGED <<fs, templateCache, styleCache, fileKeyCache, req, statted, token, pass, input, output>>

\* lines 161-163 and 189: an inline stylesheet the entry has no text for
LoadMissingStyle(r, i) ==
    /\ Issue(r)
    /\ MapGet(templateCache, TPath) # Undefined
    /\ ~HasContent(At(templateCache[TPath].styles, i))
    /\ resp' = [resp EXCEPT ![r] =
                  NoResult("undefined", "componentStylesheet", SubUrl("componentStylesheet", i), 0)]
    /\ UNCHANGED <<fs, templateCache, styleCache, fileKeyCache, req, statted, token, pass, input, output>>

\* lines 161-169 and 109-111: an inline stylesheet goes to loadStylesheet
\* with the style cache of the entry found
StartInlineStyle(r, i) ==
    /\ Issue(r)
    /\ MapGet(templateCache, TPath) # Undefined
    /\ HasContent(At(templateCache[TPath].styles, i))
    /\ LET style == At(templateCache[TPath].styles, i)
           url == SubUrl("componentStylesheet", i)
       IN  req' = Launch(r, [IdleReq EXCEPT
                        !.pc = "stat", !.kind = "componentStylesheet", !.url = url,
                        !.cache = "private",
                        !.cacheEntry = MapGet(templateCache[TPath].styleCache, url),
                        !.source = style.content,
                        !.type = IF style.type = "scss" THEN "scss" ELSE "css",
                        !.second = Repeats(r, url)])
    /\ resp' = [resp EXCEPT ![r] = NoResp]
    /\ UNCHANGED <<fs, templateCache, styleCache, fileKeyCache, statted, token, pass, input, output>>

(***************************************************************************)
(* onLoad(.css, .scss) and loadStylesheet                                  *)
(***************************************************************************)
\* lines 206-209 and 109-111
StartStylesheet(r) ==
    /\ Issue(r)
    /\ req' = Launch(r, [IdleReq EXCEPT
                    !.pc = "stat", !.kind = "stylesheet", !.url = StylesheetUrl,
                    !.cache = "shared",
                    !.cacheEntry = MapGet(styleCache, StylesheetUrl),
                    !.type = "scss",
                    !.second = Repeats(r, StylesheetUrl)])
    /\ resp' = [resp EXCEPT ![r] = NoResp]
    /\ UNCHANGED <<fs, templateCache, styleCache, fileKeyCache, statted, token, pass, input, output>>

\* the task goes on to recompute the stylesheet (line 114)
Recompute(task) ==
    [task EXCEPT !.pc = IF task.source = Undefined THEN "readSource" ELSE "process",
                 !.todo = <<>>]

\* the response of a stylesheet load, lines 171 and 211
StyleResponse(entry) == toCSSOnLoad(entry) @@ [warnings |-> Undefined]

\* the task returns the entry it found (lines 142, 171, 211)
ReturnCached(r) ==
    /\ resp' = [resp EXCEPT ![r] = Result(r, StyleResponse(req[r].cacheEntry), 0)]
    /\ req' = [req EXCEPT ![r] = IdleReq]

\* lines 111-113 and 65-70: the key of the file arrives
StatStyle(r) ==
    /\ req[r].pc = "stat" /\ req[r].kind # "template"
    /\ LET file == splitUrl(req[r].url).file
           cacheKey == getCacheKey(file)
           entry == req[r].cacheEntry
           task == [req[r] EXCEPT !.cacheKey = cacheKey]
       IN  /\ IF entry = Undefined \/ KeyMismatch(entry, cacheKey)
              THEN /\ req' = [req EXCEPT ![r] = Recompute(task)]
                   /\ UNCHANGED resp
              ELSE IF DepsToCheck(entry) # <<>>
                   THEN /\ req' = [req EXCEPT ![r] = [task EXCEPT !.pc = "validate",
                                                                  !.todo = DepsToCheck(entry)]]
                        /\ UNCHANGED resp
                   ELSE ReturnCached(r)
    /\ UNCHANGED <<fs, templateCache, styleCache, fileKeyCache, loads, statted, token, pass, input, output>>

\* lines 71-75: the key of one recorded dependency arrives
ValidateDep(r) ==
    /\ req[r].pc = "validate"
    /\ LET dep == Head(req[r].todo)
           current == getCacheKey(dep.path)
       IN  /\ IF DepMismatch(dep, current)
              THEN /\ req' = [req EXCEPT ![r] = Recompute(req[r])]
                   /\ UNCHANGED resp
              ELSE IF Tail(req[r].todo) # <<>>
                   THEN /\ req' = [req EXCEPT ![r].todo = Tail(@)]
                        /\ UNCHANGED resp
                   ELSE ReturnCached(r)
    /\ UNCHANGED <<fs, templateCache, styleCache, fileKeyCache, loads, statted, token, pass, input, output>>

\* line 115: the text of the stylesheet file arrives
ReadSource(r) ==
    /\ req[r].pc = "readSource"
    /\ LET file == splitUrl(req[r].url).file
       IN  req' = [req EXCEPT ![r].pc = "process", ![r].source = Content(file, fs[file])]
    /\ UNCHANGED <<fs, templateCache, styleCache, fileKeyCache, resp, loads, statted, token, pass, input, output>>

\* a load that never stores the entry it built
StoreStyle_Skip(r, entry) == UNCHANGED <<styleCache, templateCache>>

\* a load that does not overwrite an entry another load has stored
StoreStyle_KeepFirst(r, entry) ==
    /\ styleCache' = IF req[r].cache = "shared" /\ req[r].url \notin DOMAIN styleCache
                     THEN MapSet(styleCache, req[r].url, entry)
                     ELSE styleCache
    /\ templateCache' = IF req[r].cache = "private"
                           /\ req[r].url \notin DOMAIN templateCache[req[r].url.path].styleCache
                        THEN [templateCache EXCEPT
                                ![req[r].url.path].styleCache = MapSet(@, req[r].url, entry)]
                        ELSE templateCache

\* cache.set(url, cacheEntry), line 139, on the map the task was given
StoreStyle(r, entry) ==
    /\ styleCache' = IF req[r].cache = "shared"
                     THEN MapSet(styleCache, req[r].url, entry)
                     ELSE styleCache
    /\ templateCache' = IF req[r].cache = "private"
                        THEN [templateCache EXCEPT
                                ![req[r].url.path].styleCache = MapSet(@, req[r].url, entry)]
                        ELSE templateCache

\* lines 133-142: the entry is built, stored and returned
FinishStyle(r, code, deps) ==
    LET entry == [cacheKey |-> req[r].cacheKey, source |-> req[r].source,
                  deps |-> deps, code |-> code]
    IN  /\ StoreStyle(r, entry)
        /\ resp' = [resp EXCEPT ![r] = Result(r, StyleResponse(entry), 1)]
        /\ req' = [req EXCEPT ![r] = IdleReq]

\* a load that stores its entry as soon as the code is there, before the
\* keys of the dependencies are read
Process_StoreEarly(r) ==
    /\ req[r].pc = "process"
    /\ LET file == splitUrl(req[r].url).file
           scope == splitUrl(req[r].url).query.scope
           loaded == IF req[r].type = "scss" THEN LoadedUrls(file) ELSE <<>>
           depText == [k \in DOMAIN loaded |->
                         IF loaded[k] = file THEN req[r].source
                         ELSE Content(loaded[k], fs[loaded[k]])]
           code == ProcessedCode(req[r].source, req[r].type, scope, depText)
       IN  IF loaded = <<>>
           THEN FinishStyle(r, code, <<>>)
           ELSE /\ req' = [req EXCEPT ![r].pc = "depKeys", ![r].code = code,
                                      ![r].todo = loaded, ![r].deps = <<>>]
                /\ StoreStyle(r, [cacheKey |-> req[r].cacheKey, source |-> req[r].source,
                                  deps |-> <<>>, code |-> code])
                /\ UNCHANGED resp
    /\ UNCHANGED <<fs, fileKeyCache, loads, statted, token, pass, input, output>>

\* lines 118-124 and 259-295: processStylesheet; the preprocessor reads the
\* partials as they are on disk now
Process(r) ==
    /\ req[r].pc = "process"
    /\ LET file == splitUrl(req[r].url).file
           scope == splitUrl(req[r].url).query.scope
           loaded == IF req[r].type = "scss" THEN LoadedUrls(file) ELSE <<>>
           depText == [k \in DOMAIN loaded |->
                         IF loaded[k] = file THEN req[r].source
                         ELSE Content(loaded[k], fs[loaded[k]])]
           code == ProcessedCode(req[r].source, req[r].type, scope, depText)
       IN  IF loaded = <<>>
           THEN FinishStyle(r, code, <<>>)
           ELSE /\ req' = [req EXCEPT ![r].pc = "depKeys", ![r].code = code,
                                      ![r].todo = loaded, ![r].deps = <<>>]
                /\ UNCHANGED <<templateCache, styleCache, resp>>
    /\ UNCHANGED <<fs, fileKeyCache, loads, statted, token, pass, input, output>>

\* lines 129-131: the key of one file the preprocessor loaded arrives
DepKey(r) ==
    /\ req[r].pc = "depKeys"
    /\ LET d == Head(req[r].todo)
           deps == Append(req[r].deps, [path |-> d, key |-> getCacheKey(d)])
       IN  /\ IF Tail(req[r].todo) # <<>>
              THEN /\ req' = [req EXCEPT ![r].todo = Tail(@), ![r].deps = deps]
                   /\ UNCHANGED <<templateCache, styleCache, resp>>
              ELSE FinishStyle(r, req[r].code, deps)
    /\ UNCHANGED <<fs, fileKeyCache, loads, statted, token, pass, input, output>>

\* the awaited call of a running task (fs.stat, fs.readFile, parse,
\* generate, the preprocessor, scopeCSS) throws: the handler rejects
Fail(r) ==
    /\ InFlight(r)
    /\ resp' = [resp EXCEPT ![r] =
                  [NoResult("error", req[r].kind, req[r].url, 0) EXCEPT
                      !.ran = IF req[r].pc = "depKeys" THEN 1 ELSE 0]]
    /\ req' = [req EXCEPT ![r] = IdleReq]
    /\ UNCHANGED <<fs, templateCache, styleCache, fileKeyCache, loads, statted, token, pass, input, output>>

Next ==
    \/ \E f \in Files : Modify(f)
    \/ OnStart
    \/ \E r \in Slots :
        \/ StartTemplate(r)
        \/ StatTemplate(r)
        \/ ReadTemplate(r)
        \/ \E i \in Indices :
            \/ SubResourceNoTemplate(r, "componentScript", i)
            \/ SubResourceNoTemplate(r, "componentStylesheet", i)
            \/ LoadScript(r, i)
            \/ LoadMissingStyle(r, i)
            \/ StartInlineStyle(r, i)
        \/ StartStylesheet(r)
        \/ StatStyle(r)
        \/ ValidateDep(r)
        \/ ReadSource(r)
        \/ Process(r)
        \/ DepKey(r)
        \/ Fail(r)

Spec == Init /\ [][Next]_vars

(***************************************************************************)
(* The file identity resolver on its own: getCacheKey as any handler       *)
(* calls it, between modifications of the files and build starts           *)
(***************************************************************************)
\* lines 49-57: one call of getCacheKey(filePath), from its first line to
\* the value it resolves to
IdentityRequest(filePath) ==
    /\ statted[filePath] < MaxStats
    /\ token' = getCacheKey(filePath)
    /\ statted' = IF ReadsDisk(filePath) THEN [statted EXCEPT ![filePath] = @ + 1] ELSE statted
    /\ UNCHANGED <<fs, templateCache, styleCache, fileKeyCache, req, resp, loads, pass, input, output>>

NextIdentity ==
    \/ \E f \in Files : Modify(f)
    \/ OnStart
    \/ \E f \in Files : IdentityRequest(f)

SpecIdentity == Init /\ [][NextIdentity]_vars

(***************************************************************************)
(* Properties                                                              *)
(***************************************************************************)
\* the load in slot r takes a step that ends its validation without throwing
Decides(r) ==
    /\ req[r].pc \in {"stat", "validate"}
    /\ req'[r].pc \notin {"stat", "validate"}
    /\ resp'[r].status # "error"

\* the load in slot r returns in this step the entry it found in the cache
ReturnsCached(r) ==
    /\ InFlight(r) /\ req'[r].pc = "idle"
    /\ resp'[r].status = "ok" /\ resp'[r].ran = 0

\* the load in slot r returns in this step
Returns(r) == InFlight(r) /\ req'[r].pc = "idle" /\ resp'[r].status = "ok"

\* the dependencies an entry records (a template entry records none)
RecordedDeps(entry) == IF "deps" \in DOMAIN entry THEN entry.deps ELSE <<>>

\* the entry is there, its key is the identity of file on disk, and every
\* dependency it records has the key of its path on disk
ValidOnDisk(entry, file) ==
    /\ entry # Undefined
    /\ entry.cacheKey = Identity(file)
    /\ \A k \in DOMAIN RecordedDeps(entry) :
          RecordedDeps(entry)[k].key = Identity(RecordedDeps(entry)[k].path)

\* C1: a validation during which no file changed judges the entry valid
\* (returns it) exactly when the entry exists, its own key is the identity
\* of the primary file and every recorded dependency key is the identity of
\* its path; one mismatch makes the load recompute.
C1_ValidIffAllKeysMatch ==
    [][\A r \in Slots :
        (Decides(r) /\ req[r].fs0 = fs)
            => (ReturnsCached(r) <=> ValidOnDisk(req[r].cacheEntry, req[r].url.path))]_vars

\* C1 witness: a stylesheet load recomputes although the own key of its
\* entry matched, because one recorded dependency changed before the load
C1_Witness ==
    \E r \in Slots :
        /\ req[r].pc \in {"readSource", "process"}
        /\ req[r].fs0 = fs
        /\ req[r].cacheEntry # Undefined
        /\ req[r].cacheEntry.cacheKey = req[r].cacheKey
        /\ \E k \in DOMAIN req[r].cacheEntry.deps :
              req[r].cacheEntry.deps[k].key # Identity(req[r].cacheEntry.deps[k].path)

LoadKinds == {"template", "stylesheet", "componentStylesheet"}

C3_Invalidation ==
    [][\A r \in Slots :
        /\ (/\ req[r].kind = "template" /\ Decides(r)
            /\ req[r].cacheEntry # Undefined
            /\ req[r].cacheEntry.cacheKey # Identity(TPath))
              => (req'[r].pc = "read" /\ req'[r].cacheKey = Identity(TPath))
        /\ (req[r].pc = "read" /\ Returns(r))
              => /\ resp'[r].ran = 1
                 /\ templateCache'[TPath].cacheKey = req[r].cacheKey
                 /\ templateCache'[TPath].source = Content(TPath, fs[TPath])
                 /\ resp'[r].contents = templateCache'[TPath].code]_vars

\* C3 witness: one slot holds the code compiled from the first version of
\* the template, another the code a later load compiled after the file
\* changed, and the cache holds the entry with the new key
C3_Witness ==
    \E a, b \in Slots :
        /\ resp[a].status = "ok" /\ resp[a].kind = "template"
        /\ resp[a].contents.body = GeneratedCode(Content(TPath, 0))
        /\ resp[b].status = "ok" /\ resp[b].kind = "template" /\ resp[b].ran = 1
        /\ resp[b].at = fs /\ resp[b].alone /\ fs[TPath] = 1
        /\ templateCache[TPath].cacheKey = <<TPath, 1>>

\* the style cache the load in slot r was given, as it is in the next state
GivenCacheNext(r) ==
    IF req[r].cache = "shared" THEN styleCache' ELSE templateCache'[req[r].url.path].styleCache

\* C4: a stylesheet load (shared or private cache) that finds an entry with
\* a recorded dependency whose identity has changed, and during which no
\* file changes and no other load of the file runs, re-runs the pipeline,
\* returns code made from the text every partial has on disk (not the old
\* code, when a partial is what changed), and leaves in the cache an entry
\* whose recorded key for every dependency is the identity of that
\* dependency.
C4_TransitiveInvalidation ==
    [][\A r \in Slots :
        (/\ req[r].kind \in {"stylesheet", "componentStylesheet"}
         /\ Returns(r)
         /\ req[r].fs0 = fs /\ req[r].alone
         /\ req[r].cacheEntry # Undefined
         /\ \E k \in DOMAIN req[r].cacheEntry.deps :
               req[r].cacheEntry.deps[k].key # Identity(req[r].cacheEntry.deps[k].path))
            => /\ resp'[r].ran = 1
               /\ \A k \in DOMAIN resp'[r].watchFiles :
                     resp'[r].watchFiles[k] # req[r].url.path
                        => resp'[r].contents.imports[k]
                              = Content(resp'[r].watchFiles[k], fs[resp'[r].watchFiles[k]])
               /\ (\E k \in DOMAIN req[r].cacheEntry.deps :
                     /\ req[r].cacheEntry.deps[k].path # req[r].url.path
                     /\ req[r].cacheEntry.deps[k].key # Identity(req[r].cacheEntry.deps[k].path))
                    => resp'[r].contents # req[r].cacheEntry.code
               /\ req[r].url \in DOMAIN GivenCacheNext(r)
               /\ GivenCacheNext(r)[req[r].url].code = resp'[r].contents
               /\ DOMAIN GivenCacheNext(r)[req[r].url].deps # {}
               /\ \A k \in DOMAIN GivenCacheNext(r)[req[r].url].deps :
                     GivenCacheNext(r)[req[r].url].deps[k].key
                        = Identity(GivenCacheNext(r)[req[r].url].deps[k].path)]_vars

\* C4 witness: the inline stylesheet was compiled with the first version of
\* the partial, the partial changed while nothing else did, and a later
\* load returned code compiled with the new partial
C4_Witness ==
    \E a, b \in Slots :
        /\ resp[a].status = "ok" /\ resp[a].kind = "componentStylesheet"
        /\ resp[a].at # Changed
        /\ resp[a].contents.imports = << resp[a].contents.src, Content(DPath, 0) >>
        /\ resp[b].status = "ok" /\ resp[b].url = resp[a].url
        /\ resp[b].ran = 1 /\ resp[b].at = fs /\ resp[b].alone
        /\ fs = [f \in Disk |-> IF f = DPath THEN 1 ELSE 0]
        /\ resp[b].contents.imports = << resp[b].contents.src, Content(DPath, 1) >>

\* C5: within one build pass getCacheKey reads the metadata of a path from
\* the disk at most once; later requests are served from the memo.
C5_StatOncePerPass == \A f \in Files : statted[f] <= 1

\* the load in slot r throws in this step
Throws(r) == InFlight(r) /\ req'[r].pc = "idle" /\ resp'[r].status = "error"

\* C6: the step in which a load throws leaves the template cache, the
\* shared style cache and every private style cache as they are, and the
\* only steps that change a cache are those in which a load returns what it
\* compiled: a load that throws has written nothing since it started.
C6_FailedCompileCachesNothing ==
    [][/\ \A r \in Slots : Throws(r) => UNCHANGED <<templateCache, styleCache>>
       /\ (<<templateCache, styleCache>>' # <<templateCache, styleCache>>)
            => \E r \in Slots : Returns(r) /\ resp'[r].ran = 1]_vars

\* C6 witness: a direct stylesheet load has thrown after the preprocessor
\* ran (reading the key of a dependency failed), and the shared style cache
\* has no entry for it
C6_Witness ==
    \E r \in Slots :
        /\ resp[r].status = "error" /\ resp[r].kind = "stylesheet" /\ resp[r].ran = 1
        /\ MapGet(styleCache, StylesheetUrl) = Undefined

\* C7: a componentStylesheet request for an index the compiled template has
\* no inline text for returns nothing and warns exactly once.
C7_MissingStyleWarnsOnce ==
    \A r \in Slots :
        (resp[r].kind = "componentStylesheet" /\ resp[r].status = "undefined")
            => resp[r].consoleWarn = 1

\* the entry one load of a stylesheet identifier, running on its own on the
\* disk as it is now, stores for the text it is given
SingleLoadEntry(url, source, type) ==
    LET file == splitUrl(url).file
        loaded == IF type = "scss" THEN LoadedUrls(file) ELSE <<>>
    IN  [cacheKey |-> Identity(file),
         source |-> source,
         deps |-> [k \in DOMAIN loaded |-> [path |-> loaded[k], key |-> Identity(loaded[k])]],
         code |-> ProcessedCode(source, type, splitUrl(url).query.scope,
                                [k \in DOMAIN loaded |->
                                    IF loaded[k] = file THEN source
                                    ELSE Content(loaded[k], fs[loaded[k]])])]

StyleTextUnder(entry, i) == At(entry.styles, i).content

\* C9: every recompile of a template stores an entry whose private style
\* cache is empty; every entry in the private style cache of the current
\* template entry was computed from the inline text of this compile, and an
\* inline-stylesheet load that answers from the cache answers with an entry
\* computed from the text the template entry it is served from holds.
C9_PrivateCacheDroppedOnRecompile ==
    [][/\ \A r \in Slots :
            /\ (req[r].pc = "read" /\ Returns(r))
                 => templateCache'[TPath].styleCache = EmptyMap
            /\ (req[r].kind = "componentStylesheet" /\ Returns(r))
                 => resp'[r].contents.src = req[r].source
       /\ TPath \in DOMAIN templateCache'
            => \A u \in DOMAIN templateCache'[TPath].styleCache :
                  templateCache'[TPath].styleCache[u].source
                     = StyleTextUnder(templateCache'[TPath], u.suffix.i)]_vars

\* C9 witness: an inline stylesheet was compiled and cached under the first
\* compile of the template, the template changed and was recompiled, and the
\* private style cache of the new entry is empty
C9_Witness ==
    \E a, b \in Slots :
        /\ resp[a].status = "ok" /\ resp[a].kind = "componentStylesheet" /\ resp[a].ran = 1
        /\ resp[a].contents.src = Inline(TPath, 0, "style", 0)
        /\ resp[b].status = "ok" /\ resp[b].kind = "template" /\ resp[b].ran = 1
        /\ TPath \in DOMAIN templateCache
        /\ templateCache[TPath].source = Content(TPath, 1)
        /\ templateCache[TPath].styleCache = EmptyMap

\* the statements of a header that name the identifier with this suffix
Statements(header, stmt, path, suffix) ==
    {k \in DOMAIN header :
        header[k].stmt = stmt /\ header[k].path = path /\ header[k].suffix = suffix}

\* the header of a template entry re-exports each inline script once, under
\* its index in the script list, and nothing else; it imports each
\* stylesheet once, with the scope token and, when inline, its index
HeaderNamesEveryChunk(entry) ==
    LET scripts == AstScripts(entry.source)
        styles == AstStylesheets(entry.source)
        header == entry.code.header
    IN  /\ \A i \in 0..(Len(scripts) - 1) :
              Cardinality(Statements(header, "export", TPath,
                                     [type |-> "componentScript", scope |-> "", i |-> i]))
                 = IF scripts[i + 1].content # Undefined THEN 1 ELSE 0
        /\ Cardinality({k \in DOMAIN header : header[k].stmt = "export"})
              = Cardinality({i \in DOMAIN scripts : scripts[i].content # Undefined})
        /\ \A j \in 0..(Len(styles) - 1) :
              Cardinality(Statements(header, "import", styles[j + 1].url,
                                     [type |-> "componentStylesheet",
                                      scope |-> createScopeSuffix(TPath),
                                      i |-> IF styles[j + 1].content # Undefined THEN j ELSE -1]))
                 = 1
        /\ Cardinality({k \in DOMAIN header : header[k].stmt = "import"}) = Len(styles)

\* C10: the header of every compiled template names each inline script and
\* each stylesheet exactly once; a request for a componentScript identifier
\* the header names returns the original inline text of that script, with
\* the typed-script loader exactly when its declared type is ts or
\* typescript; a request for a componentStylesheet identifier the header
\* names returns the CSS processed from the inline text of that style, under
\* the scope token.
C10_SubResourceRoundTrip ==
    [][/\ TPath \in DOMAIN templateCache' => HeaderNamesEveryChunk(templateCache'[TPath])
       /\ \A r \in Slots :
            (/\ resp'[r] # resp[r] /\ resp'[r].kind = "componentScript"
             /\ TPath \in DOMAIN templateCache
             /\ Statements(templateCache[TPath].code.header, "export", TPath,
                           resp'[r].url.suffix) # {})
                => LET script == AstScripts(templateCache[TPath].source)[resp'[r].url.suffix.i + 1]
                   IN  /\ resp'[r].status = "ok"
                       /\ resp'[r].contents = script.content
                       /\ resp'[r].contents # Undefined
                       /\ resp'[r].loader = "ts" <=> script.mime \in {"ts", "typescript"}
                       /\ resp'[r].loader \in {"ts", "js"}
       /\ \A r \in Slots :
            (/\ ~InFlight(r) /\ loads' = loads + 1
             /\ TPath \in DOMAIN templateCache
             /\ Statements(templateCache[TPath].code.header, "import", TPath,
                           req'[r].url.suffix) # {})
                => /\ req'[r].pc = "stat" /\ req'[r].kind = "componentStylesheet"
                   /\ req'[r].source
                         = AstStylesheets(templateCache[TPath].source)[req'[r].url.suffix.i + 1].content
       /\ \A r \in Slots :
            (req[r].kind = "componentStylesheet" /\ Returns(r))
                => /\ resp'[r].loader = "css"
                   /\ resp'[r].contents.src = req[r].source
                   /\ resp'[r].contents.scope = createScopeSuffix(TPath)
                   /\ resp'[r].contents.type
                         = (IF \E k \in DOMAIN AstStylesheets(Content(TPath, req[r].source.ver)) :
                                  /\ AstStylesheets(Content(TPath, req[r].source.ver))[k].content = req[r].source
                                  /\ AstStylesheets(Content(TPath, req[r].source.ver))[k].mime = "scss"
                            THEN "scss" ELSE "css")]_vars

\* C10 witness: the template (an external and an inline typed script, an
\* inline and an external stylesheet) was compiled, and the requests for
\* the identifiers its header names returned the script text with the
\* typed-script loader and the processed inline stylesheet
C10_Witness ==
    \E a, b \in Slots :
        /\ TPath \in DOMAIN templateCache
        /\ templateCache[TPath].source = Content(TPath, 0)
        /\ Len(templateCache[TPath].code.header) = 3
        /\ resp[a].status = "ok" /\ resp[a].kind = "componentScript"
        /\ resp[a].url = SubUrl("componentScript", 1)
        /\ resp[a].contents = Inline(TPath, 0, "script", 1) /\ resp[a].loader = "ts"
        /\ resp[b].status = "ok" /\ resp[b].kind = "componentStylesheet"
        /\ resp[b].url = SubUrl("componentStylesheet", 0)
        /\ resp[b].contents.src = Inline(TPath, 0, "style", 0)

\* C11: a build start empties the file key memo and leaves the template
\* cache (with every private style cache in it), the shared style cache, the
\* disk and the running loads as they are; and every key a load obtains,
\* for its own file or for a dependency, in whatever pass, is the identity
\* the file has on disk at that moment, however often the file changed in
\* earlier passes.
C11_BuildStartClearsOnlyMemo ==
    [][/\ pass' # pass
            => /\ fileKeyCache' = EmptyMap
               /\ UNCHANGED <<templateCache, styleCache, fs, req, resp, loads>>
       /\ \A r \in Slots :
            /\ (req[r].pc = "stat" /\ InFlight(r) /\ req'[r].pc \notin {"stat", "idle"})
                 => req'[r].cacheKey = Identity(req[r].url.path)
            /\ (req[r].pc = "stat" /\ ReturnsCached(r))
                 => req[r].cacheEntry.cacheKey = Identity(req[r].url.path)
            /\ (req[r].pc = "depKeys" /\ req'[r].pc = "depKeys" /\ req'[r].deps # req[r].deps)
                 => req'[r].deps[Len(req'[r].deps)]
                       = [path |-> Head(req[r].todo), key |-> Identity(Head(req[r].todo))]]_vars

\* C11 witness: a pass has started, the template entry and the shared style
\* entry compiled before the template changed are still cached, and a
\* main-template load has obtained the key the file has now
C11_Witness ==
    \E r \in Slots :
        /\ pass = 1
        /\ fs[TPath] = 1
        /\ TPath \in DOMAIN templateCache /\ templateCache[TPath].cacheKey = <<TPath, 0>>
        /\ StylesheetUrl \in DOMAIN styleCache
        /\ req[r].pc = "read" /\ req[r].cacheKey = <<TPath, 1>>
        /\ req[r].cacheEntry = templateCache[TPath]

SubResourceKinds == {"componentScript", "componentStylesheet"}

\* C12: while the template has no entry in the template cache, a request
\* for one of its sub-resources (componentScript, and componentStylesheet
\* alike) throws: the response is an error without contents, no load is
\* started, no compiler runs, and the template cache, the style caches and
\* the memo stay as they are.
C12_SubResourceWithoutTemplateThrows ==
    [][TPath \notin DOMAIN templateCache
        => /\ \A r \in Slots :
                /\ req'[r].kind \notin SubResourceKinds
                /\ (resp'[r] # resp[r] /\ resp'[r].kind \in SubResourceKinds)
                     => /\ resp'[r].status = "error"
                        /\ resp'[r].contents = Undefined /\ resp'[r].ran = 0
                        /\ resp'[r].consoleWarn = 0
                        /\ UNCHANGED <<templateCache, styleCache, fileKeyCache, req>>
           /\ (loads' = loads + 1 /\ req' = req)
                => /\ UNCHANGED <<templateCache, styleCache, fileKeyCache>>
                   /\ \E r \in Slots :
                        /\ ~InFlight(r)
                        /\ resp'[r].status = "error" /\ resp'[r].kind \in SubResourceKinds
                        /\ resp'[r].url.path = TPath
                        /\ \A x \in Slots \ {r} : resp'[x] = resp[x]]_vars

\* C12 witness: a componentScript request for the template was answered
\* with an error while the template cache was empty, and the shared style
\* cache holds a compiled stylesheet
C12_Witness ==
    \E r \in Slots :
        /\ resp[r].status = "error" /\ resp[r].kind = "componentScript"
        /\ resp[r].url = SubUrl("componentScript", 1)
        /\ templateCache = EmptyMap
        /\ StylesheetUrl \in DOMAIN styleCache

\* the 1-based positions of the line spans that contain the offset
SpansContaining(lines, pos) ==
    {k \in DOMAIN lines : lines[k].start <= pos /\ pos < lines[k].end}

\* C13: every main-template response carries, for each warning the parser
\* reported at an offset inside a line span of the source, a diagnostic with
\* the 0-based index of that span as line and the offset minus the start of
\* the span as column; only warnings at offsets outside every span are
\* dropped.
C13_WarningLocated ==
    \A r \in Slots :
        (resp[r].status = "ok" /\ resp[r].kind = "template")
            => LET source == resp[r].contents.body.generated
                   lines == getLines(TemplateText(source))
                   ws == ParserWarnings(source)
               IN  /\ \A n \in DOMAIN ws :
                         \A k \in SpansContaining(lines, ws[n].pos) :
                            \E d \in DOMAIN resp[r].warnings :
                               /\ resp[r].warnings[d].text = ws[n].message
                               /\ resp[r].warnings[d].location.line = k - 1
                               /\ resp[r].warnings[d].location.column = ws[n].pos - lines[k].start
                   /\ Len(resp[r].warnings)
                         = Cardinality({n \in DOMAIN ws : SpansContaining(lines, ws[n].pos) # {}})

(***************************************************************************)
(* The component name on its own: compileTemplate's call of                *)
(* options.componentName for a template path                               *)
(***************************************************************************)
DirSegs == {Seg("proj", ""), Seg("components", ""), Seg("button", ""), Dot}
FileSegs == {Seg("index", ".html"), Seg("button", ".html"), Seg("card", ".html")}

RECURSIVE SeqsUpTo(_, _)
SeqsUpTo(S, n) ==
    IF n = 0 THEN {<<>>}
    ELSE SeqsUpTo(S, n - 1) \cup {Append(q, x) : q \in SeqsUpTo(S, n - 1), x \in S}

TemplatePaths ==
    {Path(abs, Append(dirs, file)) :
        abs \in BOOLEAN, dirs \in SeqsUpTo(DirSegs, MaxDepth), file \in FileSegs}

InitComponentName ==
    /\ fs = [f \in Disk |-> 0]
    /\ templateCache = EmptyMap
    /\ styleCache = EmptyMap
    /\ fileKeyCache = EmptyMap
    /\ req = [r \in Slots |-> IdleReq]
    /\ resp = [r \in Slots |-> NoResp]
    /\ loads = 0
    /\ statted = [f \in Disk |-> 0]
    /\ token = Undefined
    /\ pass = 0
    /\ input \in TemplatePaths
    /\ output = Undefined

\* lines 437 and 446: the name compileTemplate passes to the parser
DeriveComponentName ==
    /\ output = Undefined
    /\ output' = [value |-> componentName(normalize(input, Root))]
    /\ UNCHANGED <<fs, templateCache, styleCache, fileKeyCache, req, resp, loads, statted,
                   token, pass, input>>

SpecComponentName == InitComponentName /\ [][DeriveComponentName]_vars

\* the last segment of a normalized path, without its extension
NameOfLast(p) == Path(FALSE, << Seg(p.segs[Len(p.segs)].base, "") >>)

\* C14: the component name of a path is its base name without extension,
\* unless that is 'index': then it is the name of the parent directory; for
\* components/button/index.html under the project root it is 'button'.
C14_ComponentName ==
    output # Undefined
        => LET id == normalize(input, Root)
           IN  /\ id.segs[Len(id.segs)].base # "index" => output.value = NameOfLast(id)
               /\ (id.segs[Len(id.segs)].base = "index" /\ Len(id.segs) > 1)
                    => output.value = NameOfLast(pathDirname(id))
               /\ input = Path(TRUE, << Seg("proj", ""), Seg("components", ""),
                                        Seg("button", ""), Seg("index", ".html") >>)
                    => output.value = Path(FALSE, << Seg("button", "") >>)

(***************************************************************************)
(* The line scan on its own                                                *)
(***************************************************************************)
Chars == {"a", "CR", "LF"}
Texts == SeqsUpTo(Chars, MaxLen)

InitLines ==
    /\ fs = [f \in Disk |-> 0]
    /\ templateCache = EmptyMap
    /\ styleCache = EmptyMap
    /\ fileKeyCache = EmptyMap
    /\ req = [r \in Slots |-> IdleReq]
    /\ resp = [r \in Slots |-> NoResp]
    /\ loads = 0
    /\ statted = [f \in Disk |-> 0]
    /\ token = Undefined
    /\ pass = 0
    /\ input \in Texts
    /\ output = Undefined

\* line 408: createMessage scans the source
ScanLines ==
    /\ output = Undefined
    /\ output' = [value |-> getLines(input)]
    /\ UNCHANGED <<fs, templateCache, styleCache, fileKeyCache, req, resp, loads, statted,
                   token, pass, input>>

SpecLines == InitLines /\ [][ScanLines]_vars

IsTerminator(ch) == ch = "CR" \/ ch = "LF"

\* the characters of the span that are not part of the terminator it ends
\* with: all but the last one, or all but the last two when it ends with
\* CR LF
BodyEnd(text, span) ==
    IF span.end - span.start >= 2 /\ CharAt(text, span.end - 2) = "CR"
       /\ CharAt(text, span.end - 1) = "LF"
    THEN span.end - 2
    ELSE IF IsTerminator(CharAt(text, span.end - 1)) THEN span.end - 1 ELSE span.end

\* C19: the spans getLines returns partition the text in order: the first
\* starts at 0, each starts where the one before ends, the last ends at the
\* length of the text, none is empty; every span but possibly the last ends
\* right after one terminator (CR, LF, or CR LF as one: a span never ends
\* between a CR and the LF after it), and no span has a terminator before
\* the one it ends with; the empty text has no spans.
C19_LinesPartitionText ==
    output # Undefined
        => /\ input = <<>> <=> output.value = <<>>
           /\ output.value # <<>> => (output.value[1].start = 0 /\ output.value[Len(output.value)].end = Len(input))
           /\ \A k \in DOMAIN output.value :
                 /\ output.value[k].start < output.value[k].end
                 /\ k > 1 => output.value[k].start = output.value[k - 1].end
                 /\ k < Len(output.value) => IsTerminator(CharAt(input, output.value[k].end - 1))
                 /\ ~(CharAt(input, output.value[k].end - 1) = "CR" /\ CharAt(input, output.value[k].end) = "LF")
                 /\ \A j \in output.value[k].start..(BodyEnd(input, output.value[k]) - 1) :
                       ~IsTerminator(CharAt(input, j))

\* C19 witness: a text with a CR LF, a bare LF and an unterminated last line
\* was scanned into three spans
C19_Witness ==
    /\ input = << "a", "CR", "LF", "LF", "a" >>
    /\ output = [value |-> << [start |-> 0, end |-> 3], [start |-> 3, end |-> 4],
                              [start |-> 4, end |-> 5] >>]

\* the paths of the dependencies an entry records
PathsOf(deps) == {deps[k].path : k \in DOMAIN deps}

\* the response was made from this cache entry
ServedFrom(response, entry) ==
    /\ response.loader = "css"
    /\ response.contents = entry.code
    /\ Len(response.watchFiles) = Len(entry.deps)
    /\ {response.watchFiles[k] : k \in DOMAIN response.watchFiles} = PathsOf(entry.deps)

\* C15: every response of a stylesheet load, direct or inline, has the css
\* loader, the code of the cache entry it was served from as contents, and
\* exactly the dependency paths recorded on that entry as files to watch:
\* the entry found in the cache on a hit, the entry the load has just
\* stored after a compile.
C15_StylesheetResponse ==
    [][\A r \in Slots :
        (req[r].kind \in {"stylesheet", "componentStylesheet"} /\ Returns(r))
            => /\ resp'[r].ran = 0 => ServedFrom(resp'[r], req[r].cacheEntry)
               /\ (resp'[r].ran = 1 /\ req[r].cache # "orphan")
                    => /\ req[r].url \in DOMAIN GivenCacheNext(r)
                       /\ ServedFrom(resp'[r], GivenCacheNext(r)[req[r].url])
               /\ resp'[r].loader = "css"
               /\ {resp'[r].watchFiles[k] : k \in DOMAIN resp'[r].watchFiles}
                     = IF req[r].type = "scss"
                       THEN {LoadedUrls(req[r].url.path)[k] : k \in DOMAIN LoadedUrls(req[r].url.path)}
                       ELSE {}]_vars

\* C15 witness: the direct stylesheet was compiled by one load and served
\* from the cache by a second; both responses watch the stylesheet and its
\* partial
C15_Witness ==
    \E a, b \in Slots :
        /\ resp[a].status = "ok" /\ resp[a].kind = "stylesheet" /\ resp[a].ran = 1
        /\ resp[b].status = "ok" /\ resp[b].kind = "stylesheet" /\ resp[b].ran = 0
        /\ resp[a].watchFiles = << SPath, DPath >>
        /\ resp[b].watchFiles = << SPath, DPath >>
        /\ resp[b].contents = styleCache[StylesheetUrl].code

\* the stylesheet entries in the shared cache and in the private cache of
\* the current template entry, each with the file it belongs to
StyleEntries ==
    {<<u, styleCache[u]>> : u \in DOMAIN styleCache}
        \cup (IF TPath \in DOMAIN templateCache
              THEN {<<u, templateCache[TPath].styleCache[u]>> :
                        u \in DOMAIN templateCache[TPath].styleCache}
              ELSE {})

\* C16: in every stored stylesheet entry the key recorded for a dependency
\* (other than the stylesheet's own file) is the identity of the version of
\* that file the preprocessor read, and so an entry whose keys all match the
\* disk holds code made from the current text of every dependency.
C16_DepKeyIsIdentityRead ==
    \A ue \in StyleEntries :
        LET file == splitUrl(ue[1]).file
            entry == ue[2]
        IN  /\ \A k \in DOMAIN entry.deps :
                  entry.deps[k].path # file
                     => entry.deps[k].key = <<entry.deps[k].path, entry.code.imports[k].ver>>
            /\ ValidOnDisk(entry, file)
                  => \A k \in DOMAIN entry.deps :
                        entry.deps[k].path # file
                           => entry.code.imports[k]
                                 = Content(entry.deps[k].path, fs[entry.deps[k].path])

PlainUrl == getAbsoluteUrl([path |-> PPath, suffix |-> NoSuffix])

\* lines 206-209 and 109-111 for P.css: path.extname(file) is not '.scss'
StartPlainStylesheet(r) ==
    /\ Issue(r)
    /\ req' = Launch(r, [IdleReq EXCEPT
                    !.pc = "stat", !.kind = "stylesheet", !.url = PlainUrl,
                    !.cache = "shared",
                    !.cacheEntry = MapGet(styleCache, PlainUrl),
                    !.type = "css",
                    !.second = Repeats(r, PlainUrl)])
    /\ resp' = [resp EXCEPT ![r] = NoResp]
    /\ UNCHANGED <<fs, templateCache, styleCache, fileKeyCache, statted, token, pass, input, output>>

NextPrimary ==
    \/ \E f \in {TPath, PPath} : Modify(f)
    \/ OnStart
    \/ \E r \in Slots :
        \/ StartTemplate(r)
        \/ StatTemplate(r)
        \/ ReadTemplate(r)
        \/ StartPlainStylesheet(r)
        \/ StatStyle(r)
        \/ ReadSource(r)
        \/ Process(r)
        \/ Fail(r)

SpecPrimary == Init /\ [][NextPrimary]_vars

\* the code compiled from the text primary file f has on the disk now
FreshCode(f) ==
    IF f = TPath
    THEN compileTemplate(f, Identity(f), Content(f, fs[f])).code
    ELSE ProcessedCode(Content(f, fs[f]), "css", splitUrl(PlainUrl).query.scope, <<>>)

\* every cached entry of a primary file whose key is the current identity
\* of the file holds the code compiled from the current text
FreshEntries ==
    /\ (TPath \in DOMAIN templateCache /\ templateCache[TPath].cacheKey = Identity(TPath))
          => templateCache[TPath].code = FreshCode(TPath)
    /\ (PlainUrl \in DOMAIN styleCache /\ styleCache[PlainUrl].cacheKey = Identity(PPath))
          => styleCache[PlainUrl].code = FreshCode(PPath)

\* C18: a main-template load or a load of the plain stylesheet during
\* which the file was not modified returns the code compiled from the
\* current text of the file, whatever earlier and overlapping loads and
\* modifications there were; and a cached entry whose cacheKey is the
\* current identity of its file holds code compiled from the current text.
C18_PrimaryFilesFresh ==
    [][/\ \A r \in Slots :
            (/\ InFlight(r) /\ ~InFlight(r)'
             /\ req[r].url \in {TemplateUrl, PlainUrl}
             /\ resp'[r].status = "ok"
             /\ req[r].fs0[req[r].url.path] = fs[req[r].url.path])
               => resp'[r].contents = FreshCode(req[r].url.path)
       /\ FreshEntries']_vars

\* C18 witness: a load of the plain stylesheet that started after the file
\* was modified has returned the code of the new text, although a load that
\* had started before the modification stored its entry of the old text
\* afterwards
C18_Witness ==
    \E a \in Slots : \E b \in Slots \ {a} :
        /\ fs[PPath] = 1
        /\ resp[a].status = "ok" /\ resp[a].url = PlainUrl /\ resp[a].ran = 1
        /\ resp[a].at = Changed
        /\ resp[a].contents.src = Content(PPath, 0)
        /\ resp[b].status = "ok" /\ resp[b].url = PlainUrl /\ resp[b].ran = 1
        /\ resp[b].at # Changed /\ resp[b].at[PPath] = 1
        /\ resp[b].contents = FreshCode(PPath)
        /\ PlainUrl \in DOMAIN styleCache
        /\ styleCache[PlainUrl].cacheKey = <<PPath, 0>>

====
